---- MODULE Spec2Model ----
(***************************************************************************)
(* A model of crates/swc_plugin_compile_mode/src/utils/mod.rs: the naming  *)
(* closure, the JSX text normaliser, the attribute and event key           *)
(* translators, the loop rewriter and the List / ListItem component        *)
(* rewriter.                                                               *)
(*                                                                         *)
(* A Rust String is modelled as a sequence of characters, a character as a *)
(* one-element TLA+ string.  Characters that have no convenient literal    *)
(* are named: "TAB" (U+0009), "LF" (U+000A), "CR" (U+000D), "E_ACUTE"      *)
(* (U+00C9, an uppercase letter outside ASCII) and "e_acute" (U+00E9).     *)
(***************************************************************************)
EXTENDS Integers, Sequences, FiniteSets, TLC

VARIABLES
  str, count, outputs,                      \* named_iter: captured prefix, counter, values returned so far
  atom, normalized, renormalized, text_pc,  \* jsx_text_to_string: input, first and second pass
  jsx_key, adapter, attr_result,            \* convert_jsx_attr_key: inputs and outcome
  val, platform, event_result,              \* identify_jsx_event_key: inputs and outcome
  callee_expr, args_before, args,           \* extract_jsx_loop: callee, arguments handed in, arguments after
  loop_result,                              \* extract_jsx_loop: the Option it returned
  import_specifiers, import_aliases,        \* transform_taro_components: the two maps
  el_before, el, comp_pc                    \* transform_taro_components: element handed in, element after, progress

vars == <<str, count, outputs, atom, normalized, renormalized, text_pc,
          jsx_key, adapter, attr_result, val, platform, event_result,
          callee_expr, args_before, args, loop_result,
          import_specifiers, import_aliases, el_before, el, comp_pc>>

namingVars == <<str, count, outputs>>
textVars   == <<atom, normalized, renormalized, text_pc>>
attrVars   == <<jsx_key, adapter, attr_result>>
eventVars  == <<val, platform, event_result>>
loopVars   == <<callee_expr, args_before, args, loop_result>>
compVars   == <<import_specifiers, import_aliases, el_before, el, comp_pc>>

\* The value of an Option that is None, and of a result not yet computed.
None    == [type |-> "None"]
Pending == [type |-> "Pending"]

(***************************************************************************)
(* Bounds of the model.                                                    *)
(***************************************************************************)
MaxCalls   == 40   \* calls of one naming closure
MaxTextLen == 5    \* characters of a JSX text
MaxKeyParts == 3   \* tokens an attribute key is built from
MaxParen   == 2    \* nested parenthesisations around a callback's return value
MaxAttrs   == 2    \* attributes of an input element

(***************************************************************************)
(* Characters.                                                             *)
(***************************************************************************)
UpperAscii == <<"A","B","C","D","E","F","G","H","I","J","K","L","M",
                "N","O","P","Q","R","S","T","U","V","W","X","Y","Z">>
LowerAscii == <<"a","b","c","d","e","f","g","h","i","j","k","l","m",
                "n","o","p","q","r","s","t","u","v","w","x","y","z">>
Digits     == <<"0","1","2","3","4","5","6","7","8","9">>

IndexOf(s, c) == CHOOSE i \in 1..Len(s) : s[i] = c
Occurs(s, c)  == \E i \in 1..Len(s) : s[i] = c

\* char::is_uppercase: the Unicode property Uppercase.
is_uppercase(c) == Occurs(UpperAscii, c) \/ c = "E_ACUTE"

\* char::to_ascii_lowercase: only A..Z are mapped.
to_ascii_lowercase(c) ==
  IF Occurs(UpperAscii, c) THEN LowerAscii[IndexOf(UpperAscii, c)] ELSE c

\* char lowercasing as str::to_lowercase does it: the Unicode mapping.
char_to_lowercase(c) ==
  IF Occurs(UpperAscii, c) THEN LowerAscii[IndexOf(UpperAscii, c)]
  ELSE IF c = "E_ACUTE" THEN "e_acute" ELSE c

\* str::to_lowercase
to_lowercase(s) == [i \in 1..Len(s) |-> char_to_lowercase(s[i])]

\* char::is_whitespace, on the characters of the model.
is_whitespace(c) == c \in {" ", "TAB", "LF", "CR"}

starts_with(s, p) == Len(s) >= Len(p) /\ SubSeq(s, 1, Len(p)) = p
ends_with(s, p)   == Len(s) >= Len(p) /\ SubSeq(s, Len(s) - Len(p) + 1, Len(s)) = p

RECURSIVE Concat(_)
Concat(ss) == IF ss = <<>> THEN <<>> ELSE Head(ss) \o Concat(Tail(ss))

\* All sequences over S of length at most n.
SeqUpTo(S, n) == UNION {[1..k -> S] : k \in 0..n}

(***************************************************************************)
(* named_iter                                                              *)
(***************************************************************************)
RECURSIVE DecimalDigits(_)
DecimalDigits(n) ==
  IF n < 10 THEN <<Digits[n + 1]>>
  ELSE DecimalDigits(n \div 10) \o <<Digits[(n % 10) + 1]>>

\* Display of an integer, as format!("{count}") prints it.
FormatInt(n) == IF n < 0 THEN <<"-">> \o DecimalDigits(-n) ELSE DecimalDigits(n)

Prefixes == { <<"n">>, <<"n", "1">>, <<>> }

InitNaming ==
  /\ str \in Prefixes
  /\ count = -1
  /\ outputs = <<>>
  \* the other components are idle
  /\ atom = <<>>
  /\ normalized = <<>>
  /\ renormalized = <<>>
  /\ text_pc = "idle"
  /\ jsx_key = <<>>
  /\ adapter = <<>>
  /\ attr_result = None
  /\ val = <<>>
  /\ platform = ""
  /\ event_result = None
  /\ callee_expr = None
  /\ args_before = <<>>
  /\ args = <<>>
  /\ loop_result = None
  /\ import_specifiers = <<>>
  /\ import_aliases = <<>>
  /\ el_before = None
  /\ el = None
  /\ comp_pc = "idle"

\* count += 1
CountWrong(c) == c + 2
CountStep(c) == c + 1

\* One call of the closure: count += 1; format!("{str}{count}").  The counter
\* is an i32; MaxCalls keeps it far from i32::MAX.
NamedIterCall ==
  /\ Len(outputs) < MaxCalls
  /\ count' = CountStep(count)
  /\ outputs' = Append(outputs, str \o FormatInt(count'))
  /\ UNCHANGED str

(***************************************************************************)
(* jsx_text_to_string                                                      *)
(***************************************************************************)
\* atom.replace("\t", " ")
ReplaceTabs(s) == [i \in 1..Len(s) |-> IF s[i] = "TAB" THEN " " ELSE s[i]]

\* str::split_inclusive('\n'): every piece but possibly the last ends in LF;
\* the empty string has no piece.
RECURSIVE SplitInclusive(_)
SplitInclusive(s) ==
  IF s = <<>> THEN <<>>
  ELSE IF Occurs(s, "LF")
    THEN LET i == CHOOSE k \in 1..Len(s) :
                    s[k] = "LF" /\ \A j \in 1..(k - 1) : s[j] # "LF"
         IN  <<SubSeq(s, 1, i)>> \o SplitInclusive(SubSeq(s, i + 1, Len(s)))
    ELSE <<s>>

\* The map of str::lines: strip one trailing LF, and then one CR before it.
StripLineEnding(piece) ==
  IF piece # <<>> /\ piece[Len(piece)] = "LF"
  THEN LET l == SubSeq(piece, 1, Len(piece) - 1)
       IN  IF l # <<>> /\ l[Len(l)] = "CR" THEN SubSeq(l, 1, Len(l) - 1) ELSE l
  ELSE piece

\* str::lines
Lines(s) == LET ps == SplitInclusive(s)
            IN  [i \in 1..Len(ps) |-> StripLineEnding(ps[i])]

RECURSIVE trim_start(_)
trim_start(s) ==
  IF s # <<>> /\ is_whitespace(Head(s)) THEN trim_start(Tail(s)) ELSE s

RECURSIVE trim_end(_)
trim_end(s) ==
  IF s # <<>> /\ is_whitespace(s[Len(s)])
  THEN trim_end(SubSeq(s, 1, Len(s) - 1)) ELSE s

\* The closure folded over the lines; index counts from 0.
FoldStepSeparatorFirst(acc, is_last, index, line) ==
  LET l1 == IF index = 0 THEN line ELSE trim_start(line)
      l2 == IF is_last THEN l1 ELSE trim_end(l1)
      a1 == IF l2 # <<>> THEN Append(acc, " ") ELSE acc
  IN  a1 \o l2
FoldStep(acc, is_last, index, line) ==
  LET l1 == IF index = 0 THEN line ELSE trim_start(line)
      l2 == IF is_last THEN l1 ELSE trim_end(l1)
      a1 == IF acc # <<>> /\ l2 # <<>> THEN Append(acc, " ") ELSE acc
  IN  a1 \o l2

RECURSIVE FoldLines(_, _, _)
FoldLines(ls, i, acc) ==
  IF i > Len(ls) THEN acc
  ELSE FoldLines(ls, i + 1, FoldStep(acc, i = Len(ls), i - 1, ls[i]))

jsx_text_to_string(a) == FoldLines(Lines(ReplaceTabs(a)), 1, <<>>)

TextChars == {"a", " ", "TAB", "LF", "CR"}

InitText ==
  /\ atom \in SeqUpTo(TextChars, MaxTextLen)
  /\ normalized = <<>>
  /\ renormalized = <<>>
  /\ text_pc = "input"
  \* the other components are idle
  /\ str = <<>>
  /\ count = -1
  /\ outputs = <<>>
  /\ jsx_key = <<>>
  /\ adapter = <<>>
  /\ attr_result = None
  /\ val = <<>>
  /\ platform = ""
  /\ event_result = None
  /\ callee_expr = None
  /\ args_before = <<>>
  /\ args = <<>>
  /\ loop_result = None
  /\ import_specifiers = <<>>
  /\ import_aliases = <<>>
  /\ el_before = None
  /\ el = None
  /\ comp_pc = "idle"

\* The text node's value is normalised.
NormalizeText ==
  /\ text_pc = "input"
  /\ normalized' = jsx_text_to_string(atom)
  /\ text_pc' = "once"
  /\ UNCHANGED <<atom, renormalized>>

\* The normalised string is normalised again.
RenormalizeText ==
  /\ text_pc = "once"
  /\ renormalized' = jsx_text_to_string(normalized)
  /\ text_pc' = "twice"
  /\ UNCHANGED <<atom, normalized>>

(***************************************************************************)
(* to_kebab_case, convert_jsx_attr_key                                     *)
(***************************************************************************)
\* The closure of to_kebab_case for the character c at index idx (from 0).
KebabChar(idx, c) ==
  IF idx # 0 /\ is_uppercase(c)
  THEN <<"-", to_ascii_lowercase(c)>>
  ELSE <<to_ascii_lowercase(c)>>

to_kebab_case(v) == Concat([i \in 1..Len(v) |-> KebabChar(i - 1, v[i])])

\* The pseudo-attribute names imported from utils/constants.rs; the code only
\* compares keys with them.
COMPILE_IF      == <<"c","o","m","p","i","l","e","I","f">>
COMPILE_ELSE    == <<"c","o","m","p","i","l","e","E","l","s","e">>
COMPILE_FOR     == <<"c","o","m","p","i","l","e","F","o","r">>
COMPILE_FOR_KEY == <<"c","o","m","p","i","l","e","F","o","r","K","e","y">>

ClassName == <<"c","l","a","s","s","N","a","m","e">>
Class     == <<"c","l","a","s","s">>

\* The match of convert_jsx_attr_key: the adapter keyword of a pseudo-attribute.
AdapterKeywordSpecNames(k) ==
  IF k = COMPILE_IF THEN "if"
  ELSE IF k = COMPILE_ELSE THEN "else"
  ELSE IF k = COMPILE_FOR THEN "for"
  ELSE IF k = COMPILE_FOR_KEY THEN "for-key"
  ELSE ""
AdapterKeyword(k) ==
  IF k = COMPILE_IF THEN "if"
  ELSE IF k = COMPILE_ELSE THEN "else"
  ELSE IF k = COMPILE_FOR THEN "for"
  ELSE IF k = COMPILE_FOR_KEY THEN "key"
  ELSE ""

\* A returned String, and a panic of Option::expect with its message
\* "[compile mode] 模板 {keyword} 语法未配置", of which the keyword is kept.
Returned(s)  == [type |-> "Returned", value |-> s]
Panicked(kw) == [type |-> "Panicked", keyword |-> kw]

convert_jsx_attr_key(k, ad) ==
  IF k = ClassName THEN Returned(Class)
  ELSE IF k \in {COMPILE_IF, COMPILE_ELSE, COMPILE_FOR, COMPILE_FOR_KEY}
    THEN LET expr == AdapterKeyword(k)
         IN  IF expr \in DOMAIN ad THEN Returned(ad[expr]) ELSE Panicked(expr)
    ELSE Returned(to_kebab_case(k))

\* Attribute keys: the special keys and every key of at most MaxKeyParts tokens.
AttrTokens == { <<"a">>, <<"B">>, <<"E_ACUTE">>, <<"i","d">>, <<"N","a","m","e">> }
AttrKeys ==
  {ClassName, COMPILE_IF, COMPILE_ELSE, COMPILE_FOR, COMPILE_FOR_KEY}
    \cup {Concat(ts) : ts \in SeqUpTo(AttrTokens, MaxKeyParts)}

\* The template syntax a keyword is configured to, as in a weapp-like adapter.
AdapterValue(kw) == <<"w","x",":">> \o
  (CASE kw = "if"      -> <<"i","f">>
     [] kw = "else"    -> <<"e","l","s","e">>
     [] kw = "for"     -> <<"f","o","r">>
     [] kw = "key"     -> <<"k","e","y">>
     [] kw = "for-key" -> <<"f","k">>)

AdapterKeywords == {"if", "else", "for", "key", "for-key"}
Adapters == { [kw \in D |-> AdapterValue(kw)] : D \in SUBSET AdapterKeywords }

InitAttr ==
  /\ jsx_key \in AttrKeys
  /\ adapter \in Adapters
  /\ attr_result = Pending
  \* the other components are idle
  /\ str = <<>>
  /\ count = -1
  /\ outputs = <<>>
  /\ atom = <<>>
  /\ normalized = <<>>
  /\ renormalized = <<>>
  /\ text_pc = "idle"
  /\ val = <<>>
  /\ platform = ""
  /\ event_result = None
  /\ callee_expr = None
  /\ args_before = <<>>
  /\ args = <<>>
  /\ loop_result = None
  /\ import_specifiers = <<>>
  /\ import_aliases = <<>>
  /\ el_before = None
  /\ el = None
  /\ comp_pc = "idle"

\* The call of convert_jsx_attr_key with the configured adapter.
ConvertJsxAttrKey ==
  /\ attr_result = Pending
  /\ attr_result' = convert_jsx_attr_key(jsx_key, adapter)
  /\ UNCHANGED <<jsx_key, adapter>>

(***************************************************************************)
(* check_is_event_attr, identify_jsx_event_key                             *)
(***************************************************************************)
On      == <<"o","n">>
Worklet == <<"W","o","r","k","l","e","t">>
Click   == <<"c","l","i","c","k">>
Tap     == <<"t","a","p">>
OnTap   == <<"o","n","T","a","p">>
Bind    == <<"b","i","n","d">>
WorkletColon == <<"w","o","r","k","l","e","t",":">>

Some(s) == [type |-> "Some", value |-> s]

\* val.starts_with("on") && val.chars().nth(2).is_some_and(|x| x.is_uppercase())
check_is_event_attr(v) == starts_with(v, On) /\ Len(v) >= 3 /\ is_uppercase(v[3])

\* str::trim_end_matches(pat): the suffix is removed as often as it matches.
RECURSIVE trim_end_matches(_, _)
trim_end_matches(s, pat) ==
  IF ends_with(s, pat)
  THEN trim_end_matches(SubSeq(s, 1, Len(s) - Len(pat)), pat)
  ELSE s

\* The binding of an event attribute on a platform.
EventBindingNameNoAlipay(v, event_name, pf) == Bind \o event_name
EventBindingName(v, event_name, pf) ==
  IF pf = "ALIPAY"
  THEN IF event_name = Tap THEN OnTap ELSE v
  ELSE Bind \o event_name

identify_jsx_event_key(v, pf) ==
  IF ends_with(v, Worklet)
  THEN LET worklet_name == trim_end_matches(v, Worklet)
       IN  IF starts_with(worklet_name, On)
           THEN Some(WorkletColon \o to_lowercase(worklet_name))
           ELSE Some(WorkletColon \o to_kebab_case(worklet_name))
  ELSE IF check_is_event_attr(v)
  THEN LET lowered    == to_lowercase(SubSeq(v, 3, Len(v)))
           event_name == IF lowered = Click THEN Tap ELSE lowered
       IN  Some(EventBindingName(v, event_name, pf))
  ELSE None

EventTokens == { On, Worklet, <<"C","l","i","c","k">>, <<"T","a","p">>,
                 <<"E_ACUTE">>, <<"1">>, <<"s">> }
EventKeys == {Concat(ts) : ts \in SeqUpTo(EventTokens, MaxKeyParts)}
Platforms == {"ALIPAY", "WEAPP"}

InitEvent ==
  /\ val \in EventKeys
  /\ platform \in Platforms
  /\ event_result = Pending
  \* the other components are idle
  /\ str = <<>>
  /\ count = -1
  /\ outputs = <<>>
  /\ atom = <<>>
  /\ normalized = <<>>
  /\ renormalized = <<>>
  /\ text_pc = "idle"
  /\ jsx_key = <<>>
  /\ adapter = <<>>
  /\ attr_result = None
  /\ callee_expr = None
  /\ args_before = <<>>
  /\ args = <<>>
  /\ loop_result = None
  /\ import_specifiers = <<>>
  /\ import_aliases = <<>>
  /\ el_before = None
  /\ el = None
  /\ comp_pc = "idle"

\* The call of identify_jsx_event_key for the configured platform.
IdentifyJsxEventKey ==
  /\ event_result = Pending
  /\ event_result' = identify_jsx_event_key(val, platform)
  /\ UNCHANGED <<val, platform>>

(***************************************************************************)
(* The JSX tree.  Every node is a record with a type field.                *)
(***************************************************************************)
Ident(sym) == [type |-> "Ident", sym |-> sym]
StrLit(v)  == [type |-> "Str", value |-> v]

\* create_jsx_bool_attr
create_jsx_bool_attr(name) ==
  [type |-> "JSXAttr", name |-> Ident(name), value |-> None]

\* create_jsx_lit_attr
create_jsx_lit_attr(name, lit) ==
  [type |-> "JSXAttr", name |-> Ident(name), value |-> [type |-> "Lit", lit |-> lit]]

\* An attribute whose value is an expression container.
ExprAttr(name) ==
  [type |-> "JSXAttr", name |-> Ident(name), value |-> [type |-> "JSXExprContainer"]]

\* An attribute with a namespaced name, and a spread attribute.
NamespacedAttr(ns, name) ==
  [type |-> "JSXAttr", name |-> [type |-> "JSXNamespacedName", ns |-> ns, name |-> name],
   value |-> None]
SpreadAttr == [type |-> "SpreadElement"]

JSXText(v) == [type |-> "JSXText", value |-> v]

JSXElement(name, attrs, self_closing, children, closing) ==
  [type |-> "JSXElement",
   opening |-> [name |-> name, attrs |-> attrs, self_closing |-> self_closing],
   children |-> children,
   closing |-> closing]

JSXFragment(children) == [type |-> "JSXFragment", children |-> children]
Paren(e) == [type |-> "Paren", expr |-> e]

(***************************************************************************)
(* is_call_expr_of_loop, extract_jsx_loop                                  *)
(***************************************************************************)
Sid   == <<"s","i","d">>

\* expr.is_arrow() || expr.is_fn_expr()
is_call_expr_of_loop(callee, as) ==
  /\ callee.type = "Member"
  /\ callee.prop.type = "Ident"
  /\ callee.prop.sym = "map"
  /\ Len(as) >= 1
  /\ as[1].expr.type \in {"Arrow", "Fn"}

\* The two attributes of a loop's root element.
LoopAttrsKeyFirst ==
  << create_jsx_lit_attr(COMPILE_FOR_KEY, StrLit(Sid)), create_jsx_bool_attr(COMPILE_FOR) >>
LoopAttrs ==
  << create_jsx_bool_attr(COMPILE_FOR), create_jsx_lit_attr(COMPILE_FOR_KEY, StrLit(Sid)) >>

\* The element a fragment is replaced by.
BlockElement(children) ==
  JSXElement(Ident("block"), LoopAttrs, FALSE, children, [name |-> Ident("block")])

\* update_return_el: the return value after the call, and the Option returned.
update_return_el(return_value) ==
  LET rv == IF return_value.type = "Paren" THEN return_value.expr ELSE return_value
  IN  IF rv.type = "JSXElement"
      THEN LET e == [rv EXCEPT !.opening.attrs = @ \o LoopAttrs]
           IN  [value |-> e, result |-> Some(e)]
      ELSE IF rv.type = "JSXFragment"
      THEN LET b == BlockElement(rv.children)
           IN  [value |-> b, result |-> Some(b)]
      ELSE [value |-> rv, result |-> None]

\* if let Some(Stmt::Return(ReturnStmt { arg: Some(return_value), .. })) = stmts.last_mut()
EndsInReturnWithArg(stmts) ==
  /\ stmts # <<>>
  /\ stmts[Len(stmts)].type = "Return"
  /\ stmts[Len(stmts)].arg.type # "None"

\* The statements with the last statement's return argument replaced.
WithReturnArg(stmts, v) == [stmts EXCEPT ![Len(stmts)].arg = v]

\* extract_jsx_loop: the arguments after the call, and the Option returned.
extract_jsx_loop(callee, as) ==
  LET untouched == [args |-> as, result |-> None]
  IN
  IF ~ is_call_expr_of_loop(callee, as) THEN untouched
  ELSE
    LET expr == as[1].expr
    IN  IF expr.type = "Fn"
        THEN IF expr.function.body.type = "BlockStmt"
                  /\ EndsInReturnWithArg(expr.function.body.stmts)
             THEN LET stmts == expr.function.body.stmts
                      u == update_return_el(stmts[Len(stmts)].arg)
                  IN  [args |-> [as EXCEPT ![1].expr.function.body.stmts =
                                                WithReturnArg(stmts, u.value)],
                       result |-> u.result]
             ELSE untouched
        ELSE \* Expr::Arrow
          IF expr.body.type = "BlockStmt"
          THEN IF EndsInReturnWithArg(expr.body.stmts)
               THEN LET stmts == expr.body.stmts
                        u == update_return_el(stmts[Len(stmts)].arg)
                    IN  [args |-> [as EXCEPT ![1].expr.body.stmts =
                                                WithReturnArg(stmts, u.value)],
                         result |-> u.result]
               ELSE untouched
          ELSE \* BlockStmtOrExpr::Expr
            LET u == update_return_el(expr.body.expr)
            IN  [args |-> [as EXCEPT ![1].expr.body.expr = u.value],
                 result |-> u.result]

\* The call expressions the rewriter is handed.
LoopInputAttrs ==
  { create_jsx_lit_attr(<<"i","d">>, StrLit(<<"x">>)),
    create_jsx_bool_attr(COMPILE_FOR),
    SpreadAttr }

Cell == JSXElement(Ident("cell"), <<>>, TRUE, <<>>, None)
ChildLists ==
  { <<>>, <<JSXText(<<"a">>)>>, <<JSXText(<<"a">>), Cell>>, <<Cell, JSXText(<<"a">>)>> }

LoopElements ==
  { JSXElement(Ident("row"), as, ch = <<>>, ch,
               IF ch = <<>> THEN None ELSE [name |-> Ident("row")]) :
      as \in SeqUpTo(LoopInputAttrs, MaxAttrs), ch \in ChildLists }

RECURSIVE Parenthesized(_, _)
Parenthesized(S, n) ==
  IF n = 0 THEN S ELSE S \cup {Paren(e) : e \in Parenthesized(S, n - 1)}

ReturnValues ==
  Parenthesized(LoopElements \cup {JSXFragment(ch) : ch \in ChildLists} \cup {Ident("item")},
                MaxParen)

ExprStmt    == [type |-> "ExprStmt"]
Return(arg) == [type |-> "Return", arg |-> arg]
BlockStmt(stmts) == [type |-> "BlockStmt", stmts |-> stmts]

StmtLists ==
  { <<>>, <<ExprStmt>>, <<Return(None)>> }
    \cup { <<Return(v)>> : v \in ReturnValues }
    \cup { <<ExprStmt, Return(v)>> : v \in ReturnValues }
    \cup { <<Return(v), ExprStmt>> : v \in ReturnValues }

Callbacks ==
  { [type |-> "Arrow", body |-> [type |-> "Expr", expr |-> v]] : v \in ReturnValues }
    \cup { [type |-> "Arrow", body |-> BlockStmt(sl)] : sl \in StmtLists }
    \cup { [type |-> "Fn", function |-> [body |-> BlockStmt(sl)]] : sl \in StmtLists }
    \cup { [type |-> "Fn", function |-> [body |-> None]] }

Callees ==
  { [type |-> "Member", prop |-> Ident("map")],
    [type |-> "Member", prop |-> Ident("filter")],
    [type |-> "Member", prop |-> [type |-> "Computed"]],
    Ident("map") }

Arg(e) == [spread |-> FALSE, expr |-> e]

ArgLists ==
  { <<>>, <<Arg(Ident("cb"))>> }
    \cup { <<Arg(cb)>> : cb \in Callbacks }
    \cup { <<Arg(cb), Arg(Ident("thisArg"))>> : cb \in Callbacks }
    \cup { <<Arg(Ident("cb")), Arg(cb)>> : cb \in Callbacks }

InitLoop ==
  /\ callee_expr \in Callees
  /\ args_before \in ArgLists
  /\ args = args_before
  /\ loop_result = Pending
  \* the other components are idle
  /\ str = <<>>
  /\ count = -1
  /\ outputs = <<>>
  /\ atom = <<>>
  /\ normalized = <<>>
  /\ renormalized = <<>>
  /\ text_pc = "idle"
  /\ jsx_key = <<>>
  /\ adapter = <<>>
  /\ attr_result = None
  /\ val = <<>>
  /\ platform = ""
  /\ event_result = None
  /\ import_specifiers = <<>>
  /\ import_aliases = <<>>
  /\ el_before = None
  /\ el = None
  /\ comp_pc = "idle"

\* The call of extract_jsx_loop on the call expression.
ExtractJsxLoop ==
  /\ loop_result = Pending
  /\ LET r == extract_jsx_loop(callee_expr, args)
     IN  /\ args' = r.args
         /\ loop_result' = r.result
  /\ UNCHANGED <<callee_expr, args_before>>

(***************************************************************************)
(* transform_list_component, transform_list_item_component,                *)
(* transform_taro_components                                               *)
(***************************************************************************)
\* utils/constants.rs
SLOT_ITEM == "slotItem"

TaroComponents == "@tarojs/components"

\* create_jsx_element
create_jsx_element(name, attrs, children) ==
  JSXElement(Ident(name), attrs, FALSE, children, [name |-> Ident(name)])

\* extract_list_props: retain the targeted attributes, then rename by alias.
extract_list_props(e, target_attrs, attrs_alias) ==
  LET Targeted(a) == /\ a.type = "JSXAttr"
                     /\ a.name.type = "Ident"
                     /\ a.name.sym \in target_attrs
      kept == SelectSeq(e.opening.attrs, Targeted)
  IN  [i \in 1..Len(kept) |->
         IF kept[i].name.sym \in DOMAIN attrs_alias
         THEN [kept[i] EXCEPT !.name = Ident(attrs_alias[kept[i].name.sym])]
         ELSE kept[i]]

ScrollViewAlias ==
  [upperThresholdCount |-> "upperThreshold", lowerThresholdCount |-> "lowerThreshold"]

ScrollViewTargets ==
  { "scrollX", "scrollY", "scrollTop", "upperThresholdCount", "lowerThresholdCount",
    "scrollIntoView", "enableBackToTop", "showScrollbar", "onScroll", "onScrollStart",
    "onScrollEnd", "onScrollToUpper", "onScrollToLower", "compileMode", "className",
    "cacheExtent", "style", "id", "key" }

ListBuilderTargets ==
  { "padding", "type", "list", "childCount", "childHeight", "onItemBuild", "onItemDispose" }

extract_scroll_view_props(e) ==
  Append(extract_list_props(e, ScrollViewTargets, ScrollViewAlias),
         create_jsx_lit_attr("type", StrLit("custom")))

extract_list_builder_props(e) ==
  Append(extract_list_props(e, ListBuilderTargets, <<>>),
         create_jsx_lit_attr("className", StrLit("list-builder")))

transform_list_component(e) ==
  create_jsx_element("scroll-view", extract_scroll_view_props(e),
    << create_jsx_element("list-builder", extract_list_builder_props(e), e.children) >>)

transform_list_item_component(e) ==
  create_jsx_element("view",
    e.opening.attrs \o << create_jsx_lit_attr(SLOT_ITEM, StrLit("item")),
                          create_jsx_lit_attr("className", StrLit("list-item")) >>,
    e.children)

\* The nested conditions under which a component's rewrite is called: the alias
\* map has the exported name, the tag is that local name, and the specifier map
\* gives the local name the module @tarojs/components.
IsTaroComponentAnySource(sym, exported, specifiers, aliases) ==
  /\ exported \in DOMAIN aliases
  /\ sym = aliases[exported]
IsTaroComponent(sym, exported, specifiers, aliases) ==
  /\ exported \in DOMAIN aliases
  /\ sym = aliases[exported]
  /\ aliases[exported] \in DOMAIN specifiers
  /\ specifiers[aliases[exported]] = TaroComponents

\* The tag tested is the tag of the element as handed in (el.clone()), the
\* second rewrite acts on the element as the first one left it.
transform_taro_components(e, specifiers, aliases) ==
  IF e.opening.name.type = "Ident"
  THEN LET sym == e.opening.name.sym
           e1 == IF IsTaroComponent(sym, "List", specifiers, aliases)
                 THEN transform_list_component(e) ELSE e
       IN  IF IsTaroComponent(sym, "ListItem", specifiers, aliases)
           THEN transform_list_item_component(e1) ELSE e1
  ELSE e

\* The elements and maps the rewriter is handed.
Locals  == {"L", "Item"}
Modules == {TaroComponents, "./local"}

AliasMaps     == UNION { [D -> Locals] : D \in SUBSET {"List", "ListItem"} }
SpecifierMaps == UNION { [D -> Modules] : D \in SUBSET Locals }

CompInputAttrs ==
  { ExprAttr("upperThresholdCount"),
    create_jsx_lit_attr("className", StrLit("c")),
    ExprAttr("type"),
    ExprAttr("onClick"),
    NamespacedAttr("xlink", "id"),
    SpreadAttr }

CompTags ==
  { Ident("L"), Ident("Item"), Ident("View"),
    [type |-> "JSXMemberExpr", obj |-> "Taro", prop |-> "L"] }

CompChildLists == { <<>>, <<JSXText("a"), JSXElement(Ident("Item"), <<>>, TRUE, <<>>, None)>> }

CompElements ==
  { JSXElement(tag, as, ch = <<>>, ch, IF ch = <<>> THEN None ELSE [name |-> tag]) :
      tag \in CompTags, as \in SeqUpTo(CompInputAttrs, MaxAttrs), ch \in CompChildLists }

InitComp ==
  /\ import_specifiers \in SpecifierMaps
  /\ import_aliases \in AliasMaps
  /\ el_before \in CompElements
  /\ el = el_before
  /\ comp_pc = "visit"
  \* the other components are idle
  /\ str = <<>>
  /\ count = -1
  /\ outputs = <<>>
  /\ atom = <<>>
  /\ normalized = <<>>
  /\ renormalized = <<>>
  /\ text_pc = "idle"
  /\ jsx_key = <<>>
  /\ adapter = <<>>
  /\ attr_result = None
  /\ val = <<>>
  /\ platform = ""
  /\ event_result = None
  /\ callee_expr = None
  /\ args_before = <<>>
  /\ args = <<>>
  /\ loop_result = None

\* The call of transform_taro_components on the element.
TransformTaroComponents ==
  /\ comp_pc = "visit"
  /\ el' = transform_taro_components(el, import_specifiers, import_aliases)
  /\ comp_pc' = "done"
  /\ UNCHANGED <<import_specifiers, import_aliases, el_before>>

(***************************************************************************)
(* Specifications: one per component; the other components stay idle.      *)
(***************************************************************************)
NextNaming == NamedIterCall /\ UNCHANGED <<textVars, attrVars, eventVars, loopVars, compVars>>
NextText   == (NormalizeText \/ RenormalizeText)
                /\ UNCHANGED <<namingVars, attrVars, eventVars, loopVars, compVars>>
NextAttr   == ConvertJsxAttrKey
                /\ UNCHANGED <<namingVars, textVars, eventVars, loopVars, compVars>>
NextEvent  == IdentifyJsxEventKey
                /\ UNCHANGED <<namingVars, textVars, attrVars, loopVars, compVars>>
NextLoop   == ExtractJsxLoop
                /\ UNCHANGED <<namingVars, textVars, attrVars, eventVars, compVars>>
NextComp   == TransformTaroComponents
                /\ UNCHANGED <<namingVars, textVars, attrVars, eventVars, loopVars>>

SpecNaming == InitNaming /\ [][NextNaming]_vars
SpecText == InitText /\ [][NextText]_vars
SpecAttr == InitAttr /\ [][NextAttr]_vars
SpecEvent == InitEvent /\ [][NextEvent]_vars
SpecLoop == InitLoop /\ [][NextLoop]_vars
SpecComp == InitComp /\ [][NextComp]_vars

(***************************************************************************)
(* Properties of named_iter, checked under SpecNaming.                     *)
(***************************************************************************)
DigitValue(c) == IndexOf(Digits, c) - 1

RECURSIVE ParseDecimal(_)
ParseDecimal(ds) ==
  IF ds = <<>> THEN 0
  ELSE 10 * ParseDecimal(SubSeq(ds, 1, Len(ds) - 1)) + DigitValue(ds[Len(ds)])

\* ds is the decimal numeral of n: digits only, no leading zero, value n.
IsDecimalOf(ds, n) ==
  /\ ds # <<>>
  /\ \A k \in 1..Len(ds) : Occurs(Digits, ds[k])
  /\ Len(ds) > 1 => ds[1] # "0"
  /\ ParseDecimal(ds) = n

NamingSchemeHolds ==
  /\ count = Len(outputs) - 1
  /\ \A i \in 1..Len(outputs) :
       /\ starts_with(outputs[i], str)
       /\ IsDecimalOf(SubSeq(outputs[i], Len(str) + 1, Len(outputs[i])), i - 1)
  /\ \A i, j \in 1..Len(outputs) : i # j => outputs[i] # outputs[j]

\* C1: after N calls of the closure the i-th call (from 0) returned the prefix
\* followed by the decimal numeral of i, the outputs are pairwise distinct, and
\* every call advances the counter by exactly one.
C1_NamingScheme ==
  /\ []NamingSchemeHolds
  /\ [][count' = count + 1 /\ Len(outputs') = Len(outputs) + 1]_namingVars

\* Eleven calls of a closure whose prefix itself ends in a digit.
C1_Witness ==
  /\ str = <<"n", "1">>
  /\ Len(outputs) >= 11
  /\ outputs[11] = <<"n", "1", "1", "0">>

(***************************************************************************)
(* Properties of jsx_text_to_string, checked under SpecText.               *)
(***************************************************************************)
\* C2: text normalisation is idempotent: normalising the normalised text
\* returns it unchanged.
C2_Idempotent == text_pc = "twice" => renormalized = normalized

\* A multi-line text whose normalisation differs from it and is not empty.
C2_Witness ==
  /\ text_pc = "twice"
  /\ Occurs(atom, "LF")
  /\ Occurs(atom, "TAB")
  /\ normalized # <<>>
  /\ renormalized = normalized

\* The lines of a text in which every line break (LF, or CR LF) ends a line and
\* starts the next one: a text ending in a line break has an empty last line.
RECURSIVE SplitAtLineBreaks(_)
SplitAtLineBreaks(s) ==
  IF ~ Occurs(s, "LF") THEN <<s>>
  ELSE LET i == CHOOSE k \in 1..Len(s) :
                  s[k] = "LF" /\ \A j \in 1..(k - 1) : s[j] # "LF"
           first == IF i > 1 /\ s[i - 1] = "CR" THEN SubSeq(s, 1, i - 2)
                    ELSE SubSeq(s, 1, i - 1)
       IN  <<first>> \o SplitAtLineBreaks(SubSeq(s, i + 1, Len(s)))

RECURSIVE JoinWithSpace(_)
JoinWithSpace(ls) ==
  IF ls = <<>> THEN <<>>
  ELSE IF Len(ls) = 1 THEN ls[1]
  ELSE ls[1] \o <<" ">> \o JoinWithSpace(Tail(ls))

\* The normal form the text rules describe.
DescribedNormalForm(t) ==
  LET ls == SplitAtLineBreaks(ReplaceTabs(t))
      trimmed == [i \in 1..Len(ls) |->
                    LET a == IF i = 1 THEN ls[i] ELSE trim_start(ls[i])
                    IN  IF i = Len(ls) THEN a ELSE trim_end(a)]
      NonEmpty(l) == l # <<>>
  IN  JoinWithSpace(SelectSeq(trimmed, NonEmpty))

\* C3: for every text, also one that begins or ends with a line break, the
\* result is the described normal form (tabs to spaces, lines trimmed except the
\* first line's head and the last line's tail, non-empty lines joined by one
\* space) and contains no tab and no line break.
C3_DescribedNormalForm ==
  text_pc # "input" =>
    /\ normalized = DescribedNormalForm(atom)
    /\ ~ Occurs(normalized, "TAB")
    /\ ~ Occurs(normalized, "LF")

(***************************************************************************)
(* Properties of convert_jsx_attr_key, checked under SpecAttr.             *)
(***************************************************************************)
ControlFlowKeys == {COMPILE_IF, COMPILE_ELSE, COMPILE_FOR, COMPILE_FOR_KEY}

\* The outcome for a control-flow key whose keyword is kw: the adapter's entry,
\* or the fatal failure naming kw; never a kebab-cased key.
LookedUpUnder(kw) ==
  /\ kw \in DOMAIN adapter => attr_result = Returned(adapter[kw])
  /\ kw \notin DOMAIN adapter => attr_result = Panicked(kw)
  /\ attr_result # Returned(to_kebab_case(jsx_key))

CountWhere(s, P(_)) == Cardinality({i \in 1..Len(s) : P(s[i])})
IsHyphen(c) == c = "-"
InternalUppercase(s) == Cardinality({i \in 2..Len(s) : is_uppercase(s[i])})

\* The kebab-case form as described: a hyphen before every uppercase letter
\* that is not the first character, every letter lower-cased.
DescribedKebab(k) ==
  Concat([i \in 1..Len(k) |->
            IF i > 1 /\ is_uppercase(k[i])
            THEN <<"-", char_to_lowercase(k[i])>>
            ELSE <<char_to_lowercase(k[i])>>])

\* C10: a key that is no control-flow pseudo-attribute translates to class when
\* it is className, and otherwise to its kebab-case form, which has one hyphen
\* more per internal uppercase letter and contains no uppercase letter.
C10_KebabCase ==
  (attr_result # Pending /\ jsx_key \notin ControlFlowKeys) =>
    IF jsx_key = ClassName
    THEN attr_result = Returned(Class)
    ELSE /\ attr_result = Returned(DescribedKebab(jsx_key))
         /\ CountWhere(attr_result.value, IsHyphen)
              = CountWhere(jsx_key, IsHyphen) + InternalUppercase(jsx_key)
         /\ CountWhere(attr_result.value, is_uppercase) = 0

(***************************************************************************)
(* Properties of identify_jsx_event_key, checked under SpecEvent.          *)
(***************************************************************************)
\* C5: a key not ending in Worklet resolves to a value iff it starts with on
\* and has an uppercase letter at offset 2; the event name is the rest after on,
\* lower-cased, click replaced by tap; the result is bind + event name off
\* ALIPAY, onTap on ALIPAY for tap, and the original key on ALIPAY otherwise.
C5_EventKey ==
  (event_result # Pending /\ ~ ends_with(val, Worklet)) =>
    LET qualifies == /\ Len(val) >= 3
                     /\ val[1] = "o" /\ val[2] = "n"
                     /\ is_uppercase(val[3])
        rest == to_lowercase(SubSeq(val, 3, Len(val)))
        name == IF rest = Click THEN Tap ELSE rest
    IN  /\ (event_result # None) <=> qualifies
        /\ qualifies =>
             event_result =
               Some(IF platform # "ALIPAY" THEN Bind \o name
                    ELSE IF name = Tap THEN OnTap ELSE val)

\* onClick resolved on the touch-first platform.
C5_Witness ==
  /\ platform = "ALIPAY"
  /\ val = <<"o","n","C","l","i","c","k">>
  /\ event_result = Some(OnTap)

\* C6: a key ending in Worklet resolves, on every platform, to worklet:
\* followed by the key without its final seven characters, lower-cased when
\* that remainder starts with on and kebab-cased otherwise.
C6_WorkletKey ==
  (event_result # Pending /\ ends_with(val, Worklet)) =>
    LET r == SubSeq(val, 1, Len(val) - 7)
    IN  event_result =
          Some(WorkletColon \o (IF starts_with(r, On) THEN to_lowercase(r)
                                ELSE to_kebab_case(r)))

(***************************************************************************)
(* Properties of extract_jsx_loop, checked under SpecLoop.                 *)
(***************************************************************************)
\* The callback's return value: the expression body of an arrow, or the
\* argument of the return that is the last statement of a block body.
CallbackReturn(cb) ==
  LET LastReturn(stmts) ==
        IF stmts # <<>> /\ stmts[Len(stmts)].type = "Return"
        THEN stmts[Len(stmts)].arg ELSE None
  IN  IF cb.type = "Arrow"
      THEN IF cb.body.type = "Expr" THEN cb.body.expr ELSE LastReturn(cb.body.stmts)
      ELSE IF cb.function.body.type = "BlockStmt"
           THEN LastReturn(cb.function.body.stmts) ELSE None

UnwrapOnce(e) == IF e.type = "Paren" THEN e.expr ELSE e

IsMapCallWithCallback ==
  /\ callee_expr = [type |-> "Member", prop |-> Ident("map")]
  /\ args_before # <<>>
  /\ args_before[1].expr.type \in {"Arrow", "Fn"}

ForMarker == [type |-> "JSXAttr", name |-> Ident(COMPILE_FOR), value |-> None]
ForKeySid ==
  [type |-> "JSXAttr", name |-> Ident(COMPILE_FOR_KEY),
   value |-> [type |-> "Lit", lit |-> StrLit(<<"s","i","d">>)]]

\* C7: for a .map call with a function or arrow callback whose return value,
\* one parenthesisation unwrapped, is an element, the element gains exactly the
\* for-marker and for-key="sid" at the end of its attributes and is otherwise
\* unchanged; a fragment is replaced by a block element with exactly these two
\* attributes and the fragment's children in order.
C7_LoopRewrite ==
  (loop_result # Pending /\ IsMapCallWithCallback) =>
    LET before == UnwrapOnce(CallbackReturn(args_before[1].expr))
        after  == CallbackReturn(args[1].expr)
        n      == Len(before.opening.attrs)
    IN  /\ before.type = "JSXElement" =>
             /\ after.type = "JSXElement"
             /\ after.opening.name = before.opening.name
             /\ after.opening.self_closing = before.opening.self_closing
             /\ after.children = before.children
             /\ after.closing = before.closing
             /\ Len(after.opening.attrs) = n + 2
             /\ SubSeq(after.opening.attrs, 1, n) = before.opening.attrs
             /\ after.opening.attrs[n + 1] = ForMarker
             /\ after.opening.attrs[n + 2] = ForKeySid
             /\ loop_result = Some(after)
        /\ before.type = "JSXFragment" =>
             /\ after.type = "JSXElement"
             /\ after.opening.name = Ident("block")
             /\ after.opening.attrs = <<ForMarker, ForKeySid>>
             /\ after.children = before.children
             /\ loop_result = Some(after)
        /\ before.type \in {"JSXElement", "JSXFragment"} =>
             /\ Len(args) = Len(args_before)
             /\ \A i \in 2..Len(args) : args[i] = args_before[i]

\* A function callback whose last statement returns a parenthesised element
\* that already has two attributes and two children.
C7_Witness ==
  /\ loop_result # Pending
  /\ IsMapCallWithCallback
  /\ args_before[1].expr.type = "Fn"
  /\ CallbackReturn(args_before[1].expr).type = "Paren"
  /\ CallbackReturn(args_before[1].expr).expr.type = "JSXElement"
  /\ Len(CallbackReturn(args_before[1].expr).expr.opening.attrs) = 2
  /\ Len(CallbackReturn(args_before[1].expr).expr.children) = 2
  /\ loop_result.type = "Some"
  /\ Len(loop_result.value.opening.attrs) = 4

(***************************************************************************)
(* Properties of transform_taro_components, checked under SpecComp.        *)
(***************************************************************************)
\* The tag is the local name of the exported component, imported from the
\* host component library.
ResolvesTo(exported) ==
  /\ el_before.opening.name.type = "Ident"
  /\ \E local \in DOMAIN import_specifiers :
       /\ exported \in DOMAIN import_aliases
       /\ import_aliases[exported] = local
       /\ el_before.opening.name = Ident(local)
       /\ import_specifiers[local] = "@tarojs/components"

IsNamedAttr(a) == a.type = "JSXAttr" /\ a.name.type = "Ident"

\* The attributes of as whose key is in allow, in order, renamed by rename.
RECURSIVE Allowlisted(_, _, _)
Allowlisted(as, allow, rename) ==
  IF as = <<>> THEN <<>>
  ELSE LET a == Head(as)
           rest == Allowlisted(Tail(as), allow, rename)
       IN  IF IsNamedAttr(a) /\ a.name.sym \in allow
           THEN << [a EXCEPT !.name.sym =
                      IF @ \in DOMAIN rename THEN rename[@] ELSE @] >> \o rest
           ELSE rest

ScrollAllowlist ==
  { "scrollX", "scrollY", "scrollTop", "upperThresholdCount", "lowerThresholdCount",
    "scrollIntoView", "enableBackToTop", "showScrollbar", "onScroll", "onScrollStart",
    "onScrollEnd", "onScrollToUpper", "onScrollToLower", "compileMode", "className",
    "cacheExtent", "style", "id", "key" }
BuilderAllowlist ==
  { "padding", "type", "list", "childCount", "childHeight", "onItemBuild", "onItemDispose" }
ThresholdRenames ==
  [upperThresholdCount |-> "upperThreshold", lowerThresholdCount |-> "lowerThreshold"]

LitAttr(name, v) ==
  [type |-> "JSXAttr", name |-> Ident(name), value |-> [type |-> "Lit", lit |-> StrLit(v)]]

\* C8: for every pair of maps, an element resolved to List of the host library
\* is replaced by a scroll-view (allowlisted attributes in order, the two
\* thresholds renamed, then type="custom") with exactly one child, a
\* list-builder (second allowlist, then className="list-builder") holding the
\* original children in order.
C8_ListRewrite ==
  (comp_pc = "done" /\ ResolvesTo("List")) =>
    /\ el.type = "JSXElement"
    /\ el.opening.name = Ident("scroll-view")
    /\ el.opening.attrs =
         Append(Allowlisted(el_before.opening.attrs, ScrollAllowlist, ThresholdRenames),
                LitAttr("type", "custom"))
    /\ Len(el.children) = 1
    /\ el.children[1].type = "JSXElement"
    /\ el.children[1].opening.name = Ident("list-builder")
    /\ el.children[1].opening.attrs =
         Append(Allowlisted(el_before.opening.attrs, BuilderAllowlist, <<>>),
                LitAttr("className", "list-builder"))
    /\ el.children[1].children = el_before.children

\* C9: the element is rewritten only if its tag is an identifier that the alias
\* map gives for List or ListItem and that the specifier map resolves to
\* @tarojs/components; in every other case it is left unchanged.
C9_RewriteOnlyIfResolved ==
  (comp_pc = "done" /\ ~ (ResolvesTo("List") \/ ResolvesTo("ListItem"))) =>
    el = el_before

\* An element whose tag is the alias of List, imported from another module,
\* left as it was.
C9_Witness ==
  /\ comp_pc = "done"
  /\ "List" \in DOMAIN import_aliases
  /\ el_before.opening.name = Ident(import_aliases["List"])
  /\ import_aliases["List"] \in DOMAIN import_specifiers
  /\ import_specifiers[import_aliases["List"]] = "./local"
  /\ Len(el_before.opening.attrs) = 2
  /\ el = el_before

\* C11: whenever extract_jsx_loop performs no rewrite and returns no element
\* (no .map member callee, no function or arrow first argument, a block body
\* not ending in a return with an argument, or a return value that is, also
\* when parenthesised, neither an element nor a fragment), the call expression
\* and its callback are exactly as they were handed in.
C11_NoRewriteUntouched ==
  loop_result = None => args = args_before

====
